---- MODULE Spec2Model ----
(***************************************************************************)
(* A model of the three crawler programs of the repository:                *)
(*   version2.py  DomainCrawler and ParallelCrawler: variables v2_...      *)
(*   advance.py   EcommerceCrawler: variables adv_..., cwr, sc_...         *)
(*   main.py      EcommerceCrawler: variables main_...                     *)
(* The variable prog says which program a behaviour runs.                  *)
(*                                                                         *)
(* URLs are records [host, path]: host is the sequence of the labels of    *)
(* the netloc ("www.amazon.in" is <<"www","amazon","in">>), path the       *)
(* sequence of the path segments.  An href with an empty host is relative. *)
(* A substring test of the code ('/help' in path, re.search(r'/dp/', url)) *)
(* is a test on whole segments: '/tok' is "some segment is tok", '/tok/'   *)
(* is "some segment that is not the last one is tok".                      *)
(***************************************************************************)
EXTENDS Integers, Sequences, FiniteSets, TLC

VARIABLES
    prog,              \* "version2" | "advance" | "scroll" | "main"
    \* ---- version2.py
    v2_visited_urls,   \* DomainCrawler.visited_urls, per domain
    v2_product_urls,   \* DomainCrawler.product_urls, per domain
    v2_spawned,        \* crawl_url coroutines gathered and not yet started
    v2_inflight,       \* crawl_url tasks suspended in session.get
    v2_hops,           \* history: link hops from the entry URL, per visited URL
    v2_gets,           \* history: session.get calls of crawl_url, per URL
    v2_pages,          \* history: URLs whose page crawl_url has read links from
    v2_done,           \* per domain: start() has returned
    v2_phase,          \* ParallelCrawler: "running" | "saved"
    v2_timed_out,      \* asyncio.wait_for raised TimeoutError
    v2_raised,         \* domains whose start() raised out of the gather
    v2_results,        \* ParallelCrawler.results (a dict: a function on its keys)
    v2_output,         \* contents of the output file (v2_phase = "saved": written)
    \* ---- advance.py
    adv_domain,        \* the domain argument of the crawl_domain task modelled
    adv_pc,            \* position of crawl_domain
    adv_visited_urls,  \* crawl_domain's visited_urls
    adv_urls_to_visit, \* crawl_domain's urls_to_visit
    adv_product_urls,  \* EcommerceCrawler.product_urls, keyed by the configured domains
    adv_page_url,      \* page.url of the crawl's Playwright page
    adv_fetched,       \* history: URLs a page.goto of this crawl has loaded
    adv_calls,         \* history: the page operations run since the last pop
    adv_verdict,       \* history: what is_product_page returned since the last pop
    adv_fetches,       \* history: crawl_with_retry calls of crawl_domain, per URL
    cwr,               \* the running (or last returned) crawl_with_retry call
    \* ---- advance.py, crawl_page's call of handle_infinite_scroll on one page
    sc_pc,             \* "start" | "loop" | "exit" | "done"
    sc_height,         \* the page: document.documentElement.scrollHeight, in viewports
    sc_dom,            \* the page: number of a[href] in the DOM (links 1..sc_dom)
    sc_page_urls,      \* crawl_page's all_urls
    sc_all_urls,       \* handle_infinite_scroll's all_urls
    sc_prev_height,    \* handle_infinite_scroll's prev_height
    sc_scroll_attempts, \* handle_infinite_scroll's scroll_attempts
    sc_elapsed,        \* seconds since start_time
    sc_scrolls,        \* history: per scroll, links the page added and new_urls_count
    sc_stop,           \* history: why the loop ended
    sc_result,         \* what crawl_page returns
    \* ---- main.py
    main_domain,       \* the domain argument of the crawl_domain task modelled
    main_pc,           \* position of crawl_domain
    main_visited_urls, \* crawl_domain's visited_urls
    main_urls_to_visit, \* crawl_domain's urls_to_visit
    main_product_urls, \* EcommerceCrawler.product_urls
    main_fetched,      \* history: URLs a page.goto of this crawl has loaded
    \* ---- advance.py, is_product_page applied to one page
    cl_pc,             \* "input" | "done"
    cl_url,            \* page.url
    cl_content_error,  \* the content check of the page raises
    cl_verdict,        \* what is_product_page returned
    \* ---- the exclusion check applied to one URL
    ex_pc,             \* "input" | "done"
    ex_fn,             \* "should_crawl_url" (advance.py) | "should_exclude_url" (version2.py)
    ex_url,            \* the url argument
    ex_domain,         \* the domain argument, or the DomainCrawler's domain
    ex_result,         \* the value returned
    \* ---- version2.py: the crawl_url coroutines of one DomainCrawler on the
    \*      event loop, and the crawler's Selenium driver
    dr_pc,             \* per coroutine: where it is suspended or running
    dr_ctype,          \* per coroutine: the Content-Type of its response
    dr_loop,           \* the coroutine the event loop is running, 0 if none
    dr_page,           \* the coroutine whose URL self.driver loaded last, 0 if none
    dr_attempts        \* per coroutine: scroll_attempts of handle_dynamic_content

v2vars == <<v2_visited_urls, v2_product_urls, v2_spawned, v2_inflight, v2_hops,
            v2_gets, v2_pages, v2_done, v2_phase, v2_timed_out, v2_raised,
            v2_results, v2_output>>

advvars == <<adv_domain, adv_pc, adv_visited_urls, adv_urls_to_visit, adv_product_urls,
             adv_page_url, adv_fetched, adv_calls, adv_verdict, adv_fetches, cwr>>

scvars == <<sc_pc, sc_height, sc_dom, sc_page_urls, sc_all_urls, sc_prev_height,
            sc_scroll_attempts, sc_elapsed, sc_scrolls, sc_stop, sc_result>>

mainvars == <<main_domain, main_pc, main_visited_urls, main_urls_to_visit,
              main_product_urls, main_fetched>>

clvars == <<cl_pc, cl_url, cl_content_error, cl_verdict>>

exvars == <<ex_pc, ex_fn, ex_url, ex_domain, ex_result>>

drvars == <<dr_pc, dr_ctype, dr_loop, dr_page, dr_attempts>>

nonV2 == <<advvars, scvars, mainvars, clvars, exvars, drvars>>
nonAdv == <<v2vars, scvars, mainvars, clvars, exvars, drvars>>
nonScroll == <<v2vars, advvars, mainvars, clvars, exvars, drvars>>
nonMain == <<v2vars, advvars, scvars, clvars, exvars, drvars>>
nonClassify == <<v2vars, advvars, scvars, mainvars, exvars, drvars>>
nonExclude == <<v2vars, advvars, scvars, mainvars, clvars, drvars>>
nonDriver == <<v2vars, advvars, scvars, mainvars, clvars, exvars>>

vars == <<prog, v2vars, advvars, scvars, mainvars, clvars, exvars, drvars>>

(***************************************************************************)
(* URLs                                                                    *)
(***************************************************************************)
Url(h, p) == [host |-> h, path |-> p]

Rel(p) == Url(<<>>, p)

\* urllib.parse.urlparse(url).netloc
Netloc(u) == u.host

\* urllib.parse.urljoin(base, link): an absolute link stands, a relative one
\* is resolved against the base's host (the code joins with self.domain, whose
\* path is empty).
UrlJoin(base, link) == IF link.host = <<>> THEN Url(base.host, link.path) ELSE link

\* re.search(r'/tok/', url) for tok in toks
HasSegFollowed(p, toks) == \E i \in 1..(Len(p) - 1) : p[i] \in toks

\* re.search(r'/tok', url), 'tok' in path
HasSeg(p, toks) == \E i \in 1..Len(p) : p[i] \in toks

\* `needle in haystack` on netlocs, at the granularity of labels
HostContains(h, d) ==
    \E i \in 0..(Len(h) - Len(d)) : \A j \in 1..Len(d) : h[i + j] = d[j]

(***************************************************************************)
(* version2.py                                                             *)
(***************************************************************************)
AmazonIn == <<"amazon", "in">>
Flipkart == <<"flipkart", "com">>
OtherHost == <<"other", "com">>
ShopEx == <<"shop", "ex">>
AmazonCom == <<"amazon", "com">>

\* advance.py: EcommerceCrawler.domains
DomainsAdv == {AmazonIn, ShopEx}

\* main.py: EcommerceCrawler.domains of the example usage
DomainsMain == {AmazonCom, Flipkart}

\* ParallelCrawler.domains of the example usage, as entry URLs
Domains2 == {Url(AmazonIn, <<>>), Url(Flipkart, <<>>)}

\* max_urls_per_domain and max_depth are parameters of ParallelCrawler
MaxUrls == 2
MaxDepth == 1

\* DomainCrawler.product_patterns
is_product_url(u) == HasSegFollowed(u.path, {"product", "products", "item", "p", "dp"})

\* DomainCrawler.exclude_patterns, extended in __init__ for the crawler's domain
ExcludeTokens2 == {"careers", "contact-us", "about-us", "login", "cart", "checkout",
                   "account", "search", "help", "blog", "footer"}
DomainExcludeFollowed2(d) ==
    IF Netloc(d) = AmazonIn THEN {"gp"}
    ELSE IF Netloc(d) = Flipkart THEN {"q"} ELSE {}
DomainExcludeTokens2(d) ==
    IF Netloc(d) = AmazonIn THEN {"prime", "minitv", "business", "now", "fresh"}
    ELSE IF Netloc(d) = Flipkart THEN {"returnpolicy", "helpcentre", "plus", "wishlist"}
    ELSE {}

should_exclude_url(d, u) ==
    \/ HasSeg(u.path, ExcludeTokens2 \cup DomainExcludeTokens2(d))
    \/ HasSegFollowed(u.path, DomainExcludeFollowed2(d))

get_url_depth(u) == Len(u.path)

\* The site served to version2.py: the hrefs of each page, in document order.
PageLinks2(u) ==
    IF u = Url(AmazonIn, <<>>) THEN
        << Rel(<<"cat">>), Rel(<<"about-us">>), Rel(<<"help", "product", "x">>),
           Url(OtherHost, <<"p", "x">>), Rel(<<"cat">>) >>
    ELSE IF u = Url(AmazonIn, <<"cat">>) THEN
        << Rel(<<"deep">>), Rel(<<"cat", "sub">>) >>
    ELSE IF u = Url(AmazonIn, <<"deep">>) THEN
        << Rel(<<>>), Rel(<<"dp", "B1">>), Rel(<<"item", "i1">>), Rel(<<"late">>) >>
    ELSE IF u = Url(Flipkart, <<>>) THEN
        << Rel(<<"p", "f1">>), Rel(<<"q", "x">>) >>
    ELSE << >>

\* What session.get / handle_dynamic_content can give for a URL
Responses == {"static", "dynamic", "dynamic_error", "status_404", "status_403", "exception"}

LinksOf(u, resp) == IF resp \in {"static", "dynamic"} THEN PageLinks2(u) ELSE << >>

\* urlparse(absolute_url).netloc == urlparse(self.domain).netloc (line 213)
SameSiteMut(d, abs) == TRUE
SameSite(d, abs) == Netloc(abs) = Netloc(d)

\* set.add, as product_urls.add(url) uses it (version2.py line 215,
\* advance.py lines 229 and 351)
SetAddMut(products, u) == {u}
SetAdd(products, u) == products \cup {u}

\* len(self.product_urls) >= self.max_urls, the test of the link loop (line 209)
LimitReachedMut(products) == FALSE
LimitReached(products) == Cardinality(products) >= MaxUrls

\* The link loop of crawl_url (lines 207-217): st = [products, tasks], the
\* product set and the list of crawl_url coroutines created so far.
RECURSIVE LinkLoop(_, _, _, _, _)
LinkLoop(d, links, i, visited, st) ==
    IF i > Len(links) THEN st
    ELSE IF LimitReached(st.products) THEN st
    ELSE LET abs == UrlJoin(d, links[i]) IN
         IF SameSite(d, abs) THEN
            IF is_product_url(abs)
            THEN LinkLoop(d, links, i + 1, visited,
                          [st EXCEPT !.products = SetAdd(@, abs)])
            ELSE IF abs \notin visited
            THEN LinkLoop(d, links, i + 1, visited,
                          [st EXCEPT !.tasks = Append(@, abs)])
            ELSE LinkLoop(d, links, i + 1, visited, st)
         ELSE LinkLoop(d, links, i + 1, visited, st)

Range(s) == {s[i] : i \in DOMAIN s}

\* One more call on u in a per-URL count of calls
CountCall(f, u) == (u :> (IF u \in DOMAIN f THEN f[u] + 1 ELSE 1)) @@ f

V2AdmitsMut(d, u) ==
    /\ ~should_exclude_url(d, u)
    /\ Cardinality(v2_product_urls[d]) < MaxUrls
    /\ get_url_depth(u) <= MaxDepth

\* crawl_url's guards before visited_urls.add (lines 181-190)
V2Admits(d, u) ==
    /\ u \notin v2_visited_urls[d]
    /\ ~should_exclude_url(d, u)
    /\ Cardinality(v2_product_urls[d]) < MaxUrls
    /\ get_url_depth(u) <= MaxDepth

\* The other programs' variables while version2.py runs, and its own otherwise
NoUrl == Url(<<>>, <<"none">>)
CwrIdle == [status |-> "idle", url |-> NoUrl, retry_count |-> 0, waits |-> << >>,
            gotos |-> << >>, captcha |-> "none", result |-> FALSE]

\* is_product_page has not run, or has returned None with no pattern matched
NoVerdict == [match |-> FALSE, sum |-> 0, count |-> 0]

IdleAdv ==
    /\ adv_domain = << >>
    /\ adv_pc = "off"
    /\ adv_visited_urls = {}
    /\ adv_urls_to_visit = {}
    /\ adv_product_urls = [d \in DomainsAdv |-> {}]
    /\ adv_page_url = NoUrl
    /\ adv_fetched = {}
    /\ adv_calls = << >>
    /\ adv_verdict = NoVerdict
    /\ adv_fetches = << >>
    /\ cwr = CwrIdle

IdleScroll ==
    /\ sc_pc = "off"
    /\ sc_height = 0
    /\ sc_dom = 0
    /\ sc_page_urls = {}
    /\ sc_all_urls = {}
    /\ sc_prev_height = 0
    /\ sc_scroll_attempts = 0
    /\ sc_elapsed = 0
    /\ sc_scrolls = << >>
    /\ sc_stop = "none"
    /\ sc_result = {}

IdleMain ==
    /\ main_domain = << >>
    /\ main_pc = "off"
    /\ main_visited_urls = {}
    /\ main_urls_to_visit = {}
    /\ main_product_urls = [d \in DomainsMain |-> {}]
    /\ main_fetched = {}

IdleClassify ==
    /\ cl_pc = "off"
    /\ cl_url = NoUrl
    /\ cl_content_error = FALSE
    /\ cl_verdict = NoVerdict

IdleDriver ==
    /\ dr_pc = << >>
    /\ dr_ctype = << >>
    /\ dr_loop = 0
    /\ dr_page = 0
    /\ dr_attempts = << >>

IdleExclude ==
    /\ ex_pc = "off"
    /\ ex_fn = "none"
    /\ ex_url = NoUrl
    /\ ex_domain = << >>
    /\ ex_result = FALSE

IdleV2 ==
    /\ v2_visited_urls = [d \in Domains2 |-> {}]
    /\ v2_product_urls = [d \in Domains2 |-> {}]
    /\ v2_spawned = [d \in Domains2 |-> {}]
    /\ v2_inflight = [d \in Domains2 |-> {}]
    /\ v2_hops = [d \in Domains2 |-> << >>]
    /\ v2_gets = [d \in Domains2 |-> << >>]
    /\ v2_pages = [d \in Domains2 |-> {}]
    /\ v2_done = [d \in Domains2 |-> FALSE]
    /\ v2_phase = "off"
    /\ v2_timed_out = FALSE
    /\ v2_raised = {}
    /\ v2_results = << >>
    /\ v2_output = << >>

InitV2 ==
    /\ prog = "version2"
    /\ IdleAdv /\ IdleScroll /\ IdleMain /\ IdleClassify /\ IdleExclude /\ IdleDriver
    /\ v2_visited_urls = [d \in Domains2 |-> {}]
    /\ v2_product_urls = [d \in Domains2 |-> {}]
    /\ v2_spawned = [d \in Domains2 |-> {[url |-> d, hops |-> 0, n |-> 1]}]
    /\ v2_inflight = [d \in Domains2 |-> {}]
    /\ v2_hops = [d \in Domains2 |-> << >>]
    /\ v2_gets = [d \in Domains2 |-> << >>]
    /\ v2_pages = [d \in Domains2 |-> {}]
    /\ v2_done = [d \in Domains2 |-> FALSE]
    /\ v2_phase = "running"
    /\ v2_timed_out = FALSE
    /\ v2_raised = {}
    /\ v2_results = << >>
    /\ v2_output = << >>

\* A gathered crawl_url coroutine runs up to its first await (lines 181-196).
V2Start(d, t) ==
    /\ prog = "version2" /\ v2_phase = "running"
    /\ t \in v2_spawned[d]
    /\ v2_spawned' = [v2_spawned EXCEPT ![d] = @ \ {t}]
    /\ IF V2Admits(d, t.url)
       THEN /\ v2_visited_urls' = [v2_visited_urls EXCEPT ![d] = @ \cup {t.url}]
            /\ v2_hops' = [v2_hops EXCEPT ![d] = (t.url :> t.hops) @@ @]
            /\ v2_gets' = [v2_gets EXCEPT ![d] = CountCall(@, t.url)]
            /\ v2_inflight' = [v2_inflight EXCEPT ![d] = @ \cup {t}]
       ELSE UNCHANGED <<v2_visited_urls, v2_hops, v2_gets, v2_inflight>>
    /\ UNCHANGED <<prog, v2_product_urls, v2_pages, v2_done, v2_phase, v2_timed_out,
                   v2_raised, v2_results, v2_output, nonV2>>

\* The response arrives: lines 196-231, up to the await of gather.
V2Response(d, t, resp) ==
    /\ prog = "version2" /\ v2_phase = "running"
    /\ t \in v2_inflight[d]
    /\ LET st == LinkLoop(d, LinksOf(t.url, resp), 1, v2_visited_urls[d],
                          [products |-> v2_product_urls[d], tasks |-> << >>])
       IN /\ v2_product_urls' = [v2_product_urls EXCEPT ![d] = st.products]
          /\ v2_spawned' = [v2_spawned EXCEPT ![d] =
                 @ \cup {[url |-> st.tasks[i], hops |-> t.hops + 1, n |-> i] :
                            i \in DOMAIN st.tasks}]
    /\ v2_inflight' = [v2_inflight EXCEPT ![d] = @ \ {t}]
    /\ v2_pages' = IF resp \in {"static", "dynamic"}
                   THEN [v2_pages EXCEPT ![d] = @ \cup {t.url}] ELSE v2_pages
    /\ UNCHANGED <<prog, v2_visited_urls, v2_hops, v2_gets, v2_done, v2_phase,
                   v2_timed_out, v2_raised, v2_results, v2_output, nonV2>>

\* start(): crawl_url(self.domain) has returned, the driver quits, the product
\* list is returned (lines 233-238).
V2DomainDone(d) ==
    /\ prog = "version2" /\ v2_phase = "running"
    /\ ~v2_done[d]
    /\ v2_spawned[d] = {} /\ v2_inflight[d] = {}
    /\ v2_done' = [v2_done EXCEPT ![d] = TRUE]
    /\ UNCHANGED <<prog, v2_visited_urls, v2_product_urls, v2_spawned, v2_inflight,
                   v2_hops, v2_gets, v2_pages, v2_phase, v2_timed_out, v2_raised,
                   v2_results, v2_output, nonV2>>

\* ParallelCrawler.save_results: json.dump(self.results)
SaveResults2(results) == results

\* gather returns: results are stored and saved (lines 266-273, 281).
V2GatherDone ==
    /\ prog = "version2" /\ v2_phase = "running"
    /\ \A d \in Domains2 : v2_done[d]
    /\ v2_results' = [d \in Domains2 |-> v2_product_urls[d]]
    /\ v2_output' = SaveResults2(v2_results')
    /\ v2_phase' = "saved"
    /\ UNCHANGED <<prog, v2_visited_urls, v2_product_urls, v2_spawned, v2_inflight,
                   v2_hops, v2_gets, v2_pages, v2_done, v2_timed_out, v2_raised, nonV2>>

\* wait_for times out: the gather is cancelled, TimeoutError is logged, and
\* self.results, never assigned, is saved (lines 275-281).
V2Timeout ==
    /\ prog = "version2" /\ v2_phase = "running"
    /\ \E d \in Domains2 : ~v2_done[d]
    /\ v2_timed_out' = TRUE
    /\ v2_output' = SaveResults2(v2_results)
    /\ v2_phase' = "saved"
    /\ UNCHANGED <<prog, v2_visited_urls, v2_product_urls, v2_spawned, v2_inflight,
                   v2_hops, v2_gets, v2_pages, v2_done, v2_raised, v2_results, nonV2>>

\* start() raises: crawl_url(self.domain) has returned and driver.quit() in
\* the finally fails (lines 234-237).  The gather passes the exception on,
\* `except Exception` logs it (lines 277-278) and self.results, never assigned,
\* is saved; the tasks of the other domains are left behind.
V2DomainRaises(d) ==
    /\ prog = "version2" /\ v2_phase = "running"
    /\ ~v2_done[d]
    /\ v2_spawned[d] = {} /\ v2_inflight[d] = {}
    /\ v2_raised' = v2_raised \cup {d}
    /\ v2_output' = SaveResults2(v2_results)
    /\ v2_phase' = "saved"
    /\ UNCHANGED <<prog, v2_visited_urls, v2_product_urls, v2_spawned, v2_inflight,
                   v2_hops, v2_gets, v2_pages, v2_done, v2_timed_out, v2_results, nonV2>>

NextV2 ==
    \/ \E d \in Domains2 : \E t \in v2_spawned[d] : V2Start(d, t)
    \/ \E d \in Domains2 : \E t \in v2_inflight[d] : \E r \in Responses :
          V2Response(d, t, r)
    \/ \E d \in Domains2 : V2DomainDone(d)
    \/ \E d \in Domains2 : V2DomainRaises(d)
    \/ V2GatherDone
    \/ V2Timeout

SpecV2 == InitV2 /\ [][NextV2]_vars

(***************************************************************************)
(* advance.py                                                              *)
(***************************************************************************)

\* `while urls_to_visit and len(visited_urls) < 50` (line 174): the model runs
\* the loop with a small limit in place of 50.
VisitLimit == 3

max_retries == 3
retry_delay == 5

Www(d) == <<"www">> \o d

\* homepage_url = f"https://www.{domain}" (line 128)
HomepageUrl(d) == Url(Www(d), << >>)

\* A ten-character [A-Z0-9] product code; str.lower() takes it out of the class.
AsinTokens == {"B0ASIN"}
Lower(tok) == IF tok = "B0ASIN" THEN "b0asin" ELSE tok
LowerUrl(u) == Url(u.host, [i \in DOMAIN u.path |-> Lower(u.path[i])])

\* 'amazon' in url
IsAmazonUrl(u) == "amazon" \in Range(u.host) \/ "amazon" \in Range(u.path)

\* self.amazon_product_patterns (lines 107-111), by index, each of weight 0.95
AmazonUrlPatternMatches(u, k) ==
    CASE k = 1 -> \E i \in 1..(Len(u.path) - 1) :
                      u.path[i] = "dp" /\ u.path[i + 1] \in AsinTokens
      [] k = 2 -> \E i \in 1..(Len(u.path) - 2) :
                      u.path[i] = "gp" /\ u.path[i + 1] = "product"
                      /\ u.path[i + 2] \in AsinTokens
      [] k = 3 -> \E i \in 2..(Len(u.path) - 1) :
                      u.path[i] = "dp" /\ u.path[i + 1] \in AsinTokens

\* crawl_with_retry's test of lines 224-226
FastPath(u) == IsAmazonUrl(u) /\ \E k \in 1..3 : AmazonUrlPatternMatches(u, k)

\* self.product_urls[urlparse(url).netloc] (line 229): the key must be a
\* configured domain, or the subscript raises KeyError.
FastPathKey(u) == Netloc(u)

\* is_same_domain (lines 620-627)
is_same_domain(u, d) == HostContains(Netloc(u), d)

\* should_crawl_url (lines 257-312)
AmazonExcludedTokens == {"minitv", "prime", "deals", "gift-cards", "services",
                         "business", "musical-instruments"}
AmazonExcludedFollowed == {"s", "b", "hz", "ap", "stores", "music", "gcx"}
ExcludedPathTokens == {"stories", "payments", "about-us", "contact-us", "help",
                       "footer", "policy", "terms", "careers", "blog"}
\* segments holding one of the words of the regular expression of line 305
SocialWordTokens == {"facebook", "twitter", "instagram", "linkedin", "youtube", "help",
                     "support", "contact-us", "about-us", "privacy", "terms", "stories"}
should_crawl_url(u, d) ==
    /\ HostContains(Netloc(u), d)
    /\ ~HasSeg(LowerUrl(u).path, AmazonExcludedTokens)
    /\ ~HasSegFollowed(LowerUrl(u).path, AmazonExcludedFollowed)
    /\ ~HasSeg(LowerUrl(u).path, ExcludedPathTokens)
    /\ ~HasSeg(LowerUrl(u).path, SocialWordTokens)

\* The filter of extract_urls_from_page (lines 427-433)
ExtractFilter(links) ==
    {l \in links : /\ ~HasSeg(LowerUrl(l).path, {"signin", "login", "cart", "help",
                                                  "customer-preferences", "language",
                                                  "currency"})
                   /\ ~HasSegFollowed(LowerUrl(l).path, {"gp"})}

\* The site served to advance.py for domain d: the a[href] of each page
\* before any scroll, and those a scroll to the bottom adds.
PageLinksAdv(d, u) ==
    IF u = HomepageUrl(d) THEN
        { Url(Www(d), <<"cat">>), Url(Www(d), <<"about-us">>),
          Url(Www(d), <<"dp", "B0ASIN">>), Url(AmazonIn, <<"dp", "B0ASIN">>),
          Url(OtherHost, <<"item", "x">>), Url(Www(d), <<"cart">>) }
    ELSE IF u = Url(Www(d), <<"cat">>) THEN
        { Url(Www(d), <<"widget">>), Url(Www(d), <<"about-us">>),
          Url(Www(d), <<"blog">>), Url(Www(d), <<"dp", "B0ASIN">>), HomepageUrl(d) }
    ELSE {}
ScrollLinksAdv(d, u) ==
    IF u = Url(Www(d), <<"cat">>) THEN { Url(Www(d), <<"more">>) } ELSE {}

\* The weights, in hundredths, of the content patterns a page matches:
\* self.amazon_content_patterns on a URL holding 'amazon', self.content_patterns
\* otherwise.
ContentWeights(u) ==
    IF u.path = <<"widget">> THEN
        IF IsAmazonUrl(u) THEN <<90, 80>> ELSE <<80, 50>>
    ELSE IF u.path = <<"about-us">> THEN
        IF IsAmazonUrl(u) THEN << >> ELSE <<50>>
    ELSE << >>

\* self.url_patterns (lines 50-65) matched by a lowercased URL, as weights
GenericUrlWeights(u) ==
    LET p == u.path
        F(toks) == \E i \in 1..(Len(p) - 1) : p[i] \in toks
    IN (IF F({"product", "products"}) THEN <<95>> ELSE << >>)
       \o (IF F({"p"}) THEN <<95>> ELSE << >>)
       \o (IF F({"dp"}) THEN <<95>> ELSE << >>)
       \o (IF F({"item"}) THEN <<95>> ELSE << >>)
       \o (IF F({"pd"}) THEN <<80>> ELSE << >>)
       \o (IF F({"shop"}) THEN <<60>> ELSE << >>)

AmazonUrlWeights(u) ==
    (IF AmazonUrlPatternMatches(u, 1) THEN <<95>> ELSE << >>)
    \o (IF AmazonUrlPatternMatches(u, 2) THEN <<95>> ELSE << >>)
    \o (IF AmazonUrlPatternMatches(u, 3) THEN <<95>> ELSE << >>)

RECURSIVE SumSeq(_)
SumSeq(s) == IF s = << >> THEN 0 ELSE Head(s) + SumSeq(Tail(s))

is_product_pageStrictMut(u, content_error) ==
    LET low == LowerUrl(u)
        ws == (IF IsAmazonUrl(low) THEN AmazonUrlWeights(low) ELSE GenericUrlWeights(low))
              \o (IF content_error THEN << >> ELSE ContentWeights(u))
        sum == SumSeq(ws)
        count == Len(ws)
    IN [match |-> count > 0 /\ sum > 50 * count, sum |-> sum, count |-> count]

is_product_pageMut(u, content_error) ==
    LET low == LowerUrl(u)
        ws == (IF IsAmazonUrl(low) THEN AmazonUrlWeights(low) ELSE GenericUrlWeights(low))
              \o (IF content_error THEN << >> ELSE ContentWeights(u))
        sum == SumSeq(ws)
        count == Len(ws)
    IN [match |-> count > 0 /\ sum >= 50, sum |-> sum, count |-> IF count > 0 THEN 1 ELSE 0]

\* is_product_page (lines 563-618) on the page at url u; content_error: the
\* content check raised and was logged.  The result is
\* [match, sum, count]: match is "a ProductUrlMatch is returned", and its
\* confidence is sum / count hundredths.
is_product_page(u, content_error) ==
    LET low == LowerUrl(u)
        ws == (IF IsAmazonUrl(low) THEN AmazonUrlWeights(low) ELSE GenericUrlWeights(low))
              \o (IF content_error THEN << >> ELSE ContentWeights(u))
        sum == SumSeq(ws)
        count == Len(ws)
    IN [match |-> count > 0 /\ sum >= 50 * count, sum |-> sum, count |-> count]

\* product_match and product_match.confidence >= 0.7 (line 350)
ConfidentProduct(m) == m.match /\ m.sum >= 70 * m.count

\* handle_amazon_captcha (lines 713-740).  env[i], for the i-th selector:
\*   "absent"      wait_for_selector times out after 5 s
\*   "unresolved"  the selector is found, '#nav-main, #navbar' never appears
\*   "resolved"    the selector is found, the main content appears
\*   "error"       a wait raises something other than TimeoutError
CaptchaOutcomes == {"absent", "unresolved", "resolved", "error"}
CaptchaEnvs == [1..3 -> CaptchaOutcomes]

RECURSIVE HandleCaptchaFrom(_, _)
HandleCaptchaFrom(env, i) ==
    IF i > 3 THEN TRUE
    ELSE CASE env[i] = "resolved" -> TRUE
           [] env[i] = "error" -> FALSE
           [] OTHER -> HandleCaptchaFrom(env, i + 1)
handle_amazon_captcha(env) == HandleCaptchaFrom(env, 1)

\* What the waits of handle_amazon_captcha came to, as the fetch records it
CaptchaSummary(env) ==
    IF \E i \in 1..3 : env[i] = "error" /\ \A j \in 1..(i - 1) : env[j] # "resolved"
    THEN "error"
    ELSE IF \E i \in 1..3 : env[i] = "resolved" THEN "resolved"
    ELSE IF \E i \in 1..3 : env[i] = "unresolved" THEN "never_resolved"
    ELSE "not_found"

InitAdv ==
    /\ prog = "advance"
    /\ IdleV2 /\ IdleScroll /\ IdleMain /\ IdleClassify /\ IdleExclude /\ IdleDriver
    /\ adv_domain \in DomainsAdv
    /\ adv_pc = "start"
    /\ adv_visited_urls = {}
    /\ adv_urls_to_visit = {}
    /\ adv_product_urls = [d \in DomainsAdv |-> {}]
    /\ adv_page_url = NoUrl
    /\ adv_fetched = {}
    /\ adv_calls = << >>
    /\ adv_verdict = NoVerdict
    /\ adv_fetches = << >>
    /\ cwr = CwrIdle

CwrStart(u) == [CwrIdle EXCEPT !.status = "running", !.url = u]

\* crawl_domain up to the call of crawl_with_retry on the homepage (line 148)
AdvVisitHome ==
    /\ prog = "advance" /\ adv_pc = "start"
    /\ cwr' = CwrStart(HomepageUrl(adv_domain))
    /\ adv_fetches' = CountCall(adv_fetches, HomepageUrl(adv_domain))
    /\ adv_pc' = "home_fetch"
    /\ UNCHANGED <<prog, adv_domain, adv_visited_urls, adv_urls_to_visit,
                   adv_product_urls, adv_page_url, adv_fetched, adv_calls,
                   adv_verdict, nonAdv>>

\* The except branch of crawl_with_retry (lines 248-255): sleep and recurse,
\* or give up.
CwrOnException(c) ==
    IF c.retry_count < max_retries
    THEN [c EXCEPT !.waits = Append(@, retry_delay * (c.retry_count + 1)),
                   !.retry_count = @ + 1]
    ELSE [c EXCEPT !.status = "returned", !.result = FALSE]

CwrReturn(c, r) == [c EXCEPT !.status = "returned", !.result = r]

\* One run of the body of crawl_with_retry (lines 222-255) at the current
\* retry_count: goto_ok is whether page.goto returns, captcha whether
\* is_captcha_present finds a marker, env what handle_amazon_captcha meets.
CwrAttempt(goto_ok, captcha, env) ==
    /\ prog = "advance" /\ cwr.status = "running"
    /\ LET c == [cwr EXCEPT !.gotos = Append(@, goto_ok)]
           u == cwr.url
       IN IF ~goto_ok
          THEN /\ cwr' = CwrOnException(c)
               /\ UNCHANGED <<adv_product_urls, adv_page_url, adv_fetched>>
          ELSE /\ adv_page_url' = u
               /\ adv_fetched' = adv_fetched \cup {u}
               /\ IF FastPath(u)
                  THEN IF FastPathKey(u) \in DOMAIN adv_product_urls
                       THEN /\ adv_product_urls' =
                                  [adv_product_urls EXCEPT ![FastPathKey(u)] = SetAdd(@, u)]
                            /\ cwr' = CwrReturn(c, TRUE)
                       ELSE /\ cwr' = CwrOnException(c)
                            /\ UNCHANGED adv_product_urls
                  ELSE /\ UNCHANGED adv_product_urls
                       /\ IF captcha
                          THEN cwr' = CwrReturn([c EXCEPT !.captcha = CaptchaSummary(env)],
                                                handle_amazon_captcha(env))
                          ELSE cwr' = CwrReturn(c, TRUE)
    /\ UNCHANGED <<prog, adv_domain, adv_pc, adv_visited_urls, adv_urls_to_visit,
                   adv_calls, adv_verdict, adv_fetches, nonAdv>>

\* extract_urls_from_page (lines 416-438); error: page.evaluate raised
extract_urls_from_page(d, u, error) == IF error THEN {} ELSE ExtractFilter(PageLinksAdv(d, u))

\* crawl_domain after the homepage fetch (lines 148-171)
AdvAfterHome(extract_error) ==
    /\ prog = "advance" /\ adv_pc = "home_fetch" /\ cwr.status = "returned"
    /\ IF ~cwr.result
       THEN /\ adv_pc' = "closed"
            /\ UNCHANGED <<adv_urls_to_visit, adv_visited_urls, adv_calls>>
       ELSE /\ adv_urls_to_visit' =
                  extract_urls_from_page(adv_domain, adv_page_url, extract_error)
                  \ adv_visited_urls
            /\ adv_visited_urls' = adv_visited_urls \cup {HomepageUrl(adv_domain)}
            /\ adv_calls' = <<"extract_urls_from_page">>
            /\ adv_pc' = "loop"
    /\ cwr' = CwrIdle
    /\ UNCHANGED <<prog, adv_domain, adv_product_urls, adv_page_url, adv_fetched,
                   adv_verdict, adv_fetches, nonAdv>>

\* while urls_to_visit and len(visited_urls) < 50 (line 174)
LoopContinuesMut == TRUE
LoopContinues ==
    adv_urls_to_visit # {} /\ Cardinality(adv_visited_urls) < VisitLimit

\* One pass of the loop head (lines 174-180): pop, skip a visited URL, else
\* mark it visited and call crawl_with_retry.
AdvPop(u) ==
    /\ prog = "advance" /\ adv_pc = "loop"
    /\ LoopContinues
    /\ u \in adv_urls_to_visit
    /\ adv_urls_to_visit' = adv_urls_to_visit \ {u}
    /\ IF u \in adv_visited_urls
       THEN UNCHANGED <<adv_visited_urls, cwr, adv_pc, adv_calls, adv_verdict, adv_fetches>>
       ELSE /\ adv_visited_urls' = adv_visited_urls \cup {u}
            /\ cwr' = CwrStart(u)
            /\ adv_fetches' = CountCall(adv_fetches, u)
            /\ adv_calls' = << >>
            /\ adv_verdict' = NoVerdict
            /\ adv_pc' = "fetch"
    /\ UNCHANGED <<prog, adv_domain, adv_product_urls, adv_page_url, adv_fetched, nonAdv>>

\* What can happen inside crawl_page
PageEnvs == {"ok", "scrolled", "extract_error", "content_error", "evaluate_error"}

\* crawl_page (lines 345-373) on the page at url u for domain d: the links it
\* returns, whether it records u as a product, and the page operations it runs.
crawl_page(d, u, e) ==
    LET m == is_product_page(u, e = "content_error")
        all_urls == extract_urls_from_page(d, u, e = "extract_error")
                    \cup (IF e = "scrolled" THEN ExtractFilter(ScrollLinksAdv(d, u)) ELSE {})
    IN IF ConfidentProduct(m)
       THEN [links |-> {}, product |-> TRUE, verdict |-> m,
             calls |-> <<"is_product_page">>]
       ELSE IF e = "evaluate_error"
       THEN [links |-> {}, product |-> FALSE, verdict |-> m,
             calls |-> <<"is_product_page", "handle_dynamic_content",
                         "extract_urls_from_page">>]
       ELSE [links |-> {l \in all_urls : is_same_domain(l, d)}, product |-> FALSE,
             verdict |-> m,
             calls |-> <<"is_product_page", "handle_dynamic_content",
                         "extract_urls_from_page">>
                       \o (IF e = "scrolled" THEN <<"handle_infinite_scroll">> ELSE << >>)]

AdmitUnvisitedMut(new_urls, visited, to_visit, d) ==
    {l \in new_urls : l \notin to_visit /\ should_crawl_url(l, d)}

AdmitNewUrlsMut(new_urls, visited, to_visit, d) ==
    {l \in new_urls : l \notin visited /\ l \notin to_visit}

\* The filter of lines 182-187 on the links crawl_page returned
AdmitNewUrls(new_urls, visited, to_visit, d) ==
    {l \in new_urls : l \notin visited /\ l \notin to_visit /\ should_crawl_url(l, d)}

\* The loop body after crawl_with_retry has returned (lines 180-187)
AdvAfterFetch(e) ==
    /\ prog = "advance" /\ adv_pc = "fetch" /\ cwr.status = "returned"
    /\ IF cwr.result
       THEN LET r == crawl_page(adv_domain, adv_page_url, e) IN
            /\ adv_product_urls' =
                  IF r.product
                  THEN [adv_product_urls EXCEPT ![adv_domain] = SetAdd(@, adv_page_url)]
                  ELSE adv_product_urls
            /\ adv_urls_to_visit' = adv_urls_to_visit \cup
                  AdmitNewUrls(r.links, adv_visited_urls, adv_urls_to_visit, adv_domain)
            /\ adv_calls' = r.calls
            /\ adv_verdict' = r.verdict
       ELSE UNCHANGED <<adv_product_urls, adv_urls_to_visit, adv_calls, adv_verdict>>
    /\ adv_pc' = "loop"
    /\ cwr' = CwrIdle
    /\ UNCHANGED <<prog, adv_domain, adv_visited_urls, adv_page_url, adv_fetched,
                   adv_fetches, nonAdv>>

\* The loop condition fails: browser.close() (lines 174, 191-192)
AdvFinish ==
    /\ prog = "advance" /\ adv_pc = "loop"
    /\ ~LoopContinues
    /\ adv_pc' = "closed"
    /\ UNCHANGED <<prog, adv_domain, adv_visited_urls, adv_urls_to_visit,
                   adv_product_urls, adv_page_url, adv_fetched, adv_calls,
                   adv_verdict, adv_fetches, cwr, nonAdv>>

NextAdv ==
    \/ AdvVisitHome
    \/ \E g \in BOOLEAN : \E c \in BOOLEAN : \E env \in CaptchaEnvs : CwrAttempt(g, c, env)
    \/ \E x \in BOOLEAN : AdvAfterHome(x)
    \/ \E u \in adv_urls_to_visit : AdvPop(u)
    \/ \E e \in PageEnvs : AdvAfterFetch(e)
    \/ AdvFinish

SpecAdv == InitAdv /\ [][NextAdv]_vars

(***************************************************************************)
(* advance.py: is_product_page applied to one page                         *)
(***************************************************************************)
\* The pages classified: the hosts of the configured domains and a foreign
\* one, and paths that match each URL pattern alone, several, or none.
ClassifyHosts == {Www(AmazonIn), AmazonIn, Www(ShopEx), OtherHost}
ClassifyPaths ==
    { << >>, <<"cat">>, <<"widget">>, <<"about-us">>,
      <<"dp", "B0ASIN">>, <<"gp", "product", "B0ASIN">>, <<"phone", "dp", "B0ASIN">>,
      <<"dp">>, <<"product", "x">>, <<"products", "x">>, <<"p", "x">>, <<"item", "x">>,
      <<"pd", "x">>, <<"shop", "x">>, <<"pd", "x", "shop", "y">>,
      <<"product", "x", "dp", "y">>, <<"amazon", "p", "x">> }

InitClassify ==
    /\ prog = "classify"
    /\ IdleV2 /\ IdleAdv /\ IdleScroll /\ IdleMain /\ IdleExclude /\ IdleDriver
    /\ cl_pc = "input"
    /\ cl_url \in {Url(h, p) : h \in ClassifyHosts, p \in ClassifyPaths}
    /\ cl_content_error \in BOOLEAN
    /\ cl_verdict = NoVerdict

\* product_match = await self.is_product_page(page) (line 349)
ClIsProductPage ==
    /\ prog = "classify" /\ cl_pc = "input"
    /\ cl_verdict' = is_product_page(cl_url, cl_content_error)
    /\ cl_pc' = "done"
    /\ UNCHANGED <<prog, cl_url, cl_content_error, nonClassify>>

NextClassify == ClIsProductPage

SpecClassify == InitClassify /\ [][NextClassify]_vars

(***************************************************************************)
(* The exclusion checks applied to one URL: should_crawl_url of advance.py *)
(* and should_exclude_url of version2.py                                   *)
(***************************************************************************)
\* The URLs checked: hosts inside and outside the configured domains, and
\* paths that match a pattern of each list, or none.
ExcludeHosts == {Www(AmazonIn), AmazonIn, Www(ShopEx), Flipkart, OtherHost}
ExcludePaths ==
    { << >>, <<"cat">>, <<"dp", "B0ASIN">>, <<"deals">>, <<"prime">>, <<"s", "x">>,
      <<"gp", "help">>, <<"about-us">>, <<"help">>, <<"blog">>, <<"facebook">>,
      <<"q", "x">>, <<"plus">>, <<"now">>, <<"cart">> }

InitExclude ==
    /\ prog = "exclude"
    /\ IdleV2 /\ IdleAdv /\ IdleScroll /\ IdleMain /\ IdleClassify /\ IdleDriver
    /\ ex_pc = "input"
    /\ ex_url \in {Url(h, p) : h \in ExcludeHosts, p \in ExcludePaths}
    /\ \/ ex_fn = "should_crawl_url" /\ ex_domain \in DomainsAdv
       \/ ex_fn = "should_exclude_url" /\ ex_domain \in Domains2
    /\ ex_result = FALSE

\* advance.py: self.should_crawl_url(url, domain) (line 186)
ExShouldCrawl ==
    /\ prog = "exclude" /\ ex_pc = "input" /\ ex_fn = "should_crawl_url"
    /\ ex_result' = should_crawl_url(ex_url, ex_domain)
    /\ ex_pc' = "done"
    /\ UNCHANGED <<prog, ex_fn, ex_url, ex_domain, nonExclude>>

\* version2.py: self.should_exclude_url(url) (line 181)
ExShouldExclude ==
    /\ prog = "exclude" /\ ex_pc = "input" /\ ex_fn = "should_exclude_url"
    /\ ex_result' = should_exclude_url(ex_domain, ex_url)
    /\ ex_pc' = "done"
    /\ UNCHANGED <<prog, ex_fn, ex_url, ex_domain, nonExclude>>

NextExclude == ExShouldCrawl \/ ExShouldExclude

SpecExclude == InitExclude /\ [][NextExclude]_vars

(***************************************************************************)
(* version2.py: the gathered crawl_url coroutines of one DomainCrawler and *)
(* its Selenium driver.  asyncio runs one coroutine at a time, up to the   *)
(* next await that suspends it.                                            *)
(***************************************************************************)
DriverTasks == 3
max_scroll_attempts == 5

\* time.sleep(2) (line 154) blocks the thread: the coroutine keeps the event
\* loop while it sleeps.
SleepSuspendsMut == TRUE
SleepSuspends == FALSE

\* The coroutines inside handle_dynamic_content, between driver.get and the
\* return
InDriver == {t \in DOMAIN dr_pc : dr_pc[t] \in {"sleep", "read"}}

InitDriver ==
    /\ prog = "driver"
    /\ IdleV2 /\ IdleAdv /\ IdleScroll /\ IdleMain /\ IdleClassify /\ IdleExclude
    /\ dr_pc = [t \in 1..DriverTasks |-> "gathered"]
    /\ dr_ctype = [t \in 1..DriverTasks |-> "none"]
    /\ dr_loop = 0
    /\ dr_page = 0
    /\ dr_attempts = [t \in 1..DriverTasks |-> 0]

\* The event loop can run coroutine t: no other coroutine is running
CanRun(t) == prog = "driver" /\ dr_loop \in {0, t}

\* crawl_url from its start to `async with self.session.get(url)` (lines 179-196)
DrCrawlUrl(t) ==
    /\ CanRun(t) /\ dr_pc[t] = "gathered"
    /\ dr_pc' = [dr_pc EXCEPT ![t] = "get"]
    /\ dr_loop' = 0
    /\ UNCHANGED <<prog, dr_ctype, dr_page, dr_attempts, nonDriver>>

\* The response arrives, crawl_url awaits response.text() (lines 196-198); a
\* status other than 200 or an exception ends the coroutine (lines 222-231).
DrResponse(t, ctype) ==
    /\ CanRun(t) /\ dr_pc[t] = "get"
    /\ dr_ctype' = [dr_ctype EXCEPT ![t] = ctype]
    /\ dr_pc' = [dr_pc EXCEPT ![t] = IF ctype = "error" THEN "done" ELSE "text"]
    /\ dr_loop' = 0
    /\ UNCHANGED <<prog, dr_page, dr_attempts, nonDriver>>

\* The text is there (lines 199-205).  A static page is parsed and the
\* coroutine goes to its link loop; a JavaScript page enters
\* handle_dynamic_content, which runs driver.get(url), the wait for <body>,
\* the first scrollTo and time.sleep(2), or raises (lines 142-154, 175-177).
DrBody(t, ok) ==
    /\ CanRun(t) /\ dr_pc[t] = "text"
    /\ IF dr_ctype[t] = "application/javascript"
       THEN /\ dr_page' = t
            /\ IF ok
               THEN /\ dr_pc' = [dr_pc EXCEPT ![t] = "sleep"]
                    /\ dr_loop' = t
               ELSE /\ dr_pc' = [dr_pc EXCEPT ![t] = "done"]
                    /\ dr_loop' = 0
       ELSE /\ dr_pc' = [dr_pc EXCEPT ![t] = "done"]
            /\ dr_loop' = 0
            /\ UNCHANGED dr_page
    /\ UNCHANGED <<prog, dr_ctype, dr_attempts, nonDriver>>

\* time.sleep(2) is over (line 154)
DrSleep(t) ==
    /\ CanRun(t) /\ dr_pc[t] = "sleep"
    /\ dr_pc' = [dr_pc EXCEPT ![t] = "read"]
    /\ dr_loop' = IF SleepSuspends THEN 0 ELSE t
    /\ UNCHANGED <<prog, dr_ctype, dr_page, dr_attempts, nonDriver>>

\* The rest of one scroll iteration (lines 156-171): the height and the <a>
\* elements are read from the driver; the loop breaks on an unchanged height
\* or goes round, and the coroutine returns the links when the loop ends.
DrRead(t, grew) ==
    /\ CanRun(t) /\ dr_pc[t] = "read"
    /\ IF grew /\ dr_attempts[t] + 1 < max_scroll_attempts
       THEN /\ dr_attempts' = [dr_attempts EXCEPT ![t] = @ + 1]
            /\ dr_pc' = [dr_pc EXCEPT ![t] = "sleep"]
            /\ dr_loop' = t
       ELSE /\ dr_attempts' = [dr_attempts EXCEPT ![t] = IF grew THEN @ + 1 ELSE @]
            /\ dr_pc' = [dr_pc EXCEPT ![t] = "done"]
            /\ dr_loop' = 0
    /\ UNCHANGED <<prog, dr_ctype, dr_page, nonDriver>>

NextDriver ==
    \/ \E t \in DOMAIN dr_pc : DrCrawlUrl(t)
    \/ \E t \in DOMAIN dr_pc :
          \E c \in {"text/html", "application/javascript", "error"} : DrResponse(t, c)
    \/ \E t \in DOMAIN dr_pc : \E ok \in BOOLEAN : DrBody(t, ok)
    \/ \E t \in DOMAIN dr_pc : DrSleep(t)
    \/ \E t \in DOMAIN dr_pc : \E grew \in BOOLEAN : DrRead(t, grew)

SpecDriver == InitDriver /\ [][NextDriver]_vars

\* The shared rendering session of either program
SpecSession == (InitDriver \/ InitAdv) /\ [][NextDriver \/ NextAdv]_vars

(***************************************************************************)
(* advance.py: handle_infinite_scroll, as crawl_page calls it on one page  *)
(***************************************************************************)
\* max_scroll_attempts and scroll_timeout are parameters of EcommerceCrawler
MaxScrollAttempts == 4
ScrollTimeout == 3
dynamic_wait == 5

\* The page: its height in viewports, the links it holds before any scroll,
\* the links its first lazy batch adds, the batches it can add in all.
MaxHeight == 8
InitialLinks == 2
FirstBatch == 12
MaxBatches == 5

\* is_same_domain on the page's links: every fifth link leaves the domain
SameDomainLink(l) == l % 5 # 0

\* Links the page holds after b batches
DomAfter(b) == IF b = 0 THEN InitialLinks ELSE InitialLinks + FirstBatch + (b - 1)
BatchesIn(n) == IF n <= InitialLinks THEN 0 ELSE n - InitialLinks - FirstBatch + 1

Min(a, b) == IF a < b THEN a ELSE b

\* Lines 497-500: a zero-gain iteration counts twice, a gain resets the count
\* (attempts is scroll_attempts after the increment of line 489).
StallCountNoResetMut(attempts, new_urls_count) ==
    IF new_urls_count = 0 THEN attempts + 1 ELSE attempts
StallCountMut(attempts, new_urls_count) ==
    IF new_urls_count = 0 THEN attempts ELSE 0
StallCount(attempts, new_urls_count) ==
    IF new_urls_count = 0 THEN attempts + 1 ELSE 0

ScrollTimedOutMut(elapsed) == FALSE

\* (datetime.now() - start_time).seconds > self.scroll_timeout (line 492)
ScrollTimedOut(elapsed) == elapsed > ScrollTimeout

InitScroll ==
    /\ prog = "scroll"
    /\ IdleV2 /\ IdleAdv /\ IdleMain /\ IdleClassify /\ IdleExclude /\ IdleDriver
    /\ sc_pc = "start"
    /\ sc_height \in 2..3
    /\ sc_dom = InitialLinks
    /\ sc_page_urls = {}
    /\ sc_all_urls = {}
    /\ sc_prev_height = 0
    /\ sc_scroll_attempts = 0
    /\ sc_elapsed = 0
    /\ sc_scrolls = << >>
    /\ sc_stop = "none"
    /\ sc_result = {}

\* crawl_page lines 358-365: the first extraction and the height test
ScCrawlPage ==
    /\ prog = "scroll" /\ sc_pc = "start"
    /\ sc_page_urls' = 1..sc_dom
    /\ IF sc_height > 1 * 2
       THEN /\ sc_pc' = "loop"
            /\ UNCHANGED sc_stop
       ELSE /\ sc_pc' = "exit"
            /\ sc_stop' = "not_tall"
    /\ UNCHANGED <<prog, sc_height, sc_dom, sc_all_urls, sc_prev_height,
                   sc_scroll_attempts, sc_elapsed, sc_scrolls, sc_result, nonScroll>>

\* An iteration of the while loop that stops at line 474: the height equals
\* prev_height and is still the same after the load-more attempt
\* (clicked: a button was found and clicked, which waits dynamic_wait).
ScHeightBreak(clicked) ==
    /\ prog = "scroll" /\ sc_pc = "loop"
    /\ sc_scroll_attempts < MaxScrollAttempts
    /\ sc_height = sc_prev_height
    /\ sc_elapsed' = IF clicked THEN Min(sc_elapsed + dynamic_wait, ScrollTimeout + 1)
                     ELSE sc_elapsed
    /\ sc_pc' = "exit"
    /\ sc_stop' = "height"
    /\ UNCHANGED <<prog, sc_height, sc_dom, sc_page_urls, sc_all_urls, sc_prev_height,
                   sc_scroll_attempts, sc_scrolls, sc_result, nonScroll>>

\* An iteration of the while loop that scrolls (lines 452-500).
\*   grown_by_click  the height equalled prev_height and a load-more click raised it
\*   batch           the scroll makes the page add its next batch of links
\*   grow            the scroll raises the page height
\*   extract_error   extract_urls_from_page caught an error and returned set()
ScIteration(grown_by_click, batch, grow, extract_error) ==
    /\ prog = "scroll" /\ sc_pc = "loop"
    /\ sc_scroll_attempts < MaxScrollAttempts
    /\ grown_by_click => (sc_height = sc_prev_height /\ sc_height < MaxHeight)
    /\ ~grown_by_click => sc_height # sc_prev_height
    /\ batch => BatchesIn(sc_dom) < MaxBatches
    /\ LET current_height == sc_height
           h1 == IF grown_by_click THEN sc_height + 1 ELSE sc_height
           h2 == IF grow /\ h1 < MaxHeight THEN h1 + 1 ELSE h1
           dom == IF batch THEN DomAfter(BatchesIn(sc_dom) + 1) ELSE sc_dom
           new_urls == IF extract_error THEN {} ELSE 1..dom
           new_urls_count == Cardinality(new_urls \ sc_all_urls)
           elapsed == Min(sc_elapsed + 1 + (IF grown_by_click THEN dynamic_wait ELSE 0),
                          ScrollTimeout + 1)
           attempts == sc_scroll_attempts + 1
       IN /\ sc_height' = h2
          /\ sc_dom' = dom
          /\ sc_all_urls' = sc_all_urls \cup new_urls
          /\ sc_scrolls' = Append(sc_scrolls,
                                  [added |-> dom - sc_dom, count |-> new_urls_count])
          /\ sc_prev_height' = current_height
          /\ sc_elapsed' = elapsed
          /\ IF ScrollTimedOut(elapsed)
             THEN /\ sc_scroll_attempts' = attempts
                  /\ sc_pc' = "exit"
                  /\ sc_stop' = "timeout"
             ELSE /\ sc_scroll_attempts' = StallCount(attempts, new_urls_count)
                  /\ IF sc_scroll_attempts' < MaxScrollAttempts
                     THEN UNCHANGED <<sc_pc, sc_stop>>
                     ELSE sc_pc' = "exit" /\ sc_stop' = "budget"
    /\ UNCHANGED <<prog, sc_page_urls, sc_result, nonScroll>>

\* A page operation of the loop raises: line 502 logs it and all_urls is returned.
ScException ==
    /\ prog = "scroll" /\ sc_pc = "loop"
    /\ sc_scroll_attempts < MaxScrollAttempts
    /\ sc_pc' = "exit"
    /\ sc_stop' = "exception"
    /\ UNCHANGED <<prog, sc_height, sc_dom, sc_page_urls, sc_all_urls, sc_prev_height,
                   sc_scroll_attempts, sc_elapsed, sc_scrolls, sc_result, nonScroll>>

\* crawl_page lines 366-369: the scroll's links are added and the same-domain
\* ones returned.
ScReturn ==
    /\ prog = "scroll" /\ sc_pc = "exit"
    /\ sc_page_urls' = sc_page_urls \cup sc_all_urls
    /\ sc_result' = {l \in sc_page_urls' : SameDomainLink(l)}
    /\ sc_pc' = "done"
    /\ UNCHANGED <<prog, sc_height, sc_dom, sc_all_urls, sc_prev_height,
                   sc_scroll_attempts, sc_elapsed, sc_scrolls, sc_stop, nonScroll>>

NextScroll ==
    \/ ScCrawlPage
    \/ \E c \in BOOLEAN : ScHeightBreak(c)
    \/ \E c, b, g, x \in BOOLEAN : ScIteration(c, b, g, x)
    \/ ScException
    \/ ScReturn

SpecScroll == InitScroll /\ [][NextScroll]_vars

\* The event loop keeps running the coroutine: each page operation returns or
\* raises, so a step of the scroll that can be taken is taken.
SpecScrollFair == SpecScroll /\ WF_vars(NextScroll)

(***************************************************************************)
(* main.py                                                                 *)
(***************************************************************************)

\* `while urls_to_visit and len(visited_urls) < 100` (line 74), with a small
\* limit in place of 100
MainVisitLimit == 3

\* is_product_url (lines 29-32): the patterns as substrings of the lowercased URL
main_is_product_url(u) ==
    HasSegFollowed(LowerUrl(u).path, {"product", "p", "item", "pd", "dp"})

\* The site served to main.py: the a.href of each page
PageLinksMain(d, u) ==
    IF u = Url(d, << >>) THEN
        { Url(d, <<"cat">>), Url(d, <<"p", "m1">>), Url(OtherHost, <<"p", "x">>) }
    ELSE IF u = Url(d, <<"cat">>) THEN { Url(d, <<"item", "m2">>), Url(d, << >>) }
    ELSE {}

\* `await self.random_delay()` (lines 26-27, 82): random_delay takes no self,
\* so the crawler is bound to min_delay and random.uniform(self, 5) raises
\* TypeError.
RandomDelayRaises == TRUE

\* crawl_page (lines 39-61): the visited set and product set after it, and
\* the links returned
main_crawl_page(d, u, visited, products) ==
    LET links == PageLinksMain(d, u)
        fresh == {l \in links : l \notin visited /\ HostContains(Netloc(l), d)}
    IN [visited |-> visited \cup fresh,
        products |-> products \cup {l \in fresh : main_is_product_url(l)},
        links |-> links]

InitMain ==
    /\ prog = "main"
    /\ IdleV2 /\ IdleAdv /\ IdleScroll /\ IdleClassify /\ IdleExclude /\ IdleDriver
    /\ main_domain \in DomainsMain
    /\ main_pc = "loop"
    /\ main_visited_urls = {}
    /\ main_urls_to_visit = {Url(main_domain, << >>)}
    /\ main_product_urls = [d \in DomainsMain |-> {}]
    /\ main_fetched = {}

\* One pass of the loop of crawl_domain (lines 74-91)
MainVisit(u, goto_ok) ==
    /\ prog = "main" /\ main_pc = "loop"
    /\ main_urls_to_visit # {} /\ Cardinality(main_visited_urls) < MainVisitLimit
    /\ u \in main_urls_to_visit
    /\ IF u \in main_visited_urls
       THEN /\ main_urls_to_visit' = main_urls_to_visit \ {u}
            /\ UNCHANGED <<main_visited_urls, main_product_urls, main_fetched>>
       ELSE /\ main_fetched' = IF goto_ok THEN main_fetched \cup {u} ELSE main_fetched
            /\ IF goto_ok /\ ~RandomDelayRaises
               THEN LET r == main_crawl_page(main_domain, u, main_visited_urls,
                                             main_product_urls[main_domain])
                    IN /\ main_visited_urls' = r.visited
                       /\ main_product_urls' =
                             [main_product_urls EXCEPT ![main_domain] = r.products]
                       /\ main_urls_to_visit' = (main_urls_to_visit \ {u}) \cup
                             {l \in r.links : l \notin r.visited
                                              /\ HostContains(Netloc(l), main_domain)}
               ELSE /\ main_urls_to_visit' = main_urls_to_visit \ {u}
                    /\ UNCHANGED <<main_visited_urls, main_product_urls>>
    /\ UNCHANGED <<prog, main_domain, main_pc, nonMain>>

\* The loop condition fails: browser.close() (line 93)
MainFinish ==
    /\ prog = "main" /\ main_pc = "loop"
    /\ ~(main_urls_to_visit # {} /\ Cardinality(main_visited_urls) < MainVisitLimit)
    /\ main_pc' = "closed"
    /\ UNCHANGED <<prog, main_domain, main_visited_urls, main_urls_to_visit,
                   main_product_urls, main_fetched, nonMain>>

NextMain ==
    \/ \E u \in main_urls_to_visit : \E g \in BOOLEAN : MainVisit(u, g)
    \/ MainFinish

SpecMain == InitMain /\ [][NextMain]_vars

(***************************************************************************)
(* Any of the programs                                                     *)
(***************************************************************************)
Init == InitV2 \/ InitAdv \/ InitMain
Next == NextV2 \/ NextAdv \/ NextMain
Spec == Init /\ [][Next]_vars

\* Every fetch returns and the event loop runs what is ready: a crawl of
\* advance.py or version2.py that can take a step takes one.
SpecCrawlFair ==
    /\ (InitV2 \/ InitAdv) /\ [][NextV2 \/ NextAdv]_vars
    /\ WF_vars(NextV2) /\ WF_vars(NextAdv)

(***************************************************************************)
(* The claims                                                              *)
(***************************************************************************)

\* C1 (as claimed): a URL the exclusion check rejects (should_crawl_url false,
\* should_exclude_url true) is never in the visited set of the domain's crawl
\* and is never fetched, also when the home page links to it.
C1_ExcludedNeverVisited ==
    /\ \A d \in Domains2 : \A u \in v2_visited_urls[d] : ~should_exclude_url(d, u)
    /\ prog = "advance" =>
          \A u \in adv_visited_urls \cup adv_fetched : should_crawl_url(u, adv_domain)

\* C2 (as claimed): at every point of a domain crawl the visited set holds at
\* most the per-domain limit of URLs: max_urls in version2.py, the loop limit
\* in advance.py.
C2_VisitedWithinLimit ==
    /\ \A d \in Domains2 : Cardinality(v2_visited_urls[d]) <= MaxUrls
    /\ Cardinality(adv_visited_urls) <= VisitLimit

LinkedFromPages2(d) ==
    UNION {{UrlJoin(d, l) : l \in Range(PageLinks2(p))} : p \in v2_pages[d]}

C4_TimeoutKeepsPartialResults ==
    (v2_phase = "saved" /\ v2_timed_out) =>
        \A d \in Domains2 : \A u \in v2_product_urls[d] :
            d \in DOMAIN v2_output /\ u \in v2_output[d]

\* C5 (as claimed): when a CAPTCHA is detected after navigation and the main
\* content never appears within the wait, crawl_with_retry returns failure,
\* and that attempt is its last navigation, with no backoff after it.
C5_UnresolvedCaptchaFails ==
    (cwr.status = "returned" /\ cwr.captcha = "never_resolved") =>
        /\ cwr.result = FALSE
        /\ Len(cwr.gotos) = Len(cwr.waits) + 1

\* Index of the first attempt whose page.goto returned (0: none did)
FirstGotoOk(c) ==
    IF \E i \in DOMAIN c.gotos : c.gotos[i]
    THEN CHOOSE i \in DOMAIN c.gotos : c.gotos[i] /\ \A j \in 1..(i - 1) : ~c.gotos[j]
    ELSE 0

\* retry_delay*1, ..., retry_delay*k
Backoff(k) == [i \in 1..k |-> retry_delay * i]

\* C6 (as claimed): crawl_with_retry, called during the crawl of a configured
\* domain on a URL of that domain that matches a fast-path product pattern,
\* returns success on the attempt whose navigation succeeds, with no retry or
\* backoff after it, and the URL is then in that domain's product set.
C6_FastPathRecorded ==
    (/\ prog = "advance" /\ cwr.status = "returned"
     /\ FastPath(cwr.url) /\ is_same_domain(cwr.url, adv_domain)
     /\ FirstGotoOk(cwr) > 0) =>
        /\ cwr.result = TRUE
        /\ Len(cwr.gotos) = FirstGotoOk(cwr)
        /\ cwr.waits = Backoff(FirstGotoOk(cwr) - 1)
        /\ cwr.url \in adv_product_urls[adv_domain]

\* C7 (as claimed): a fetch whose first k navigations fail and whose
\* navigation k+1 succeeds (no CAPTCHA handling failing after it) returns
\* success after exactly the waits retry_delay*1 .. retry_delay*k; a fetch
\* whose every navigation fails returns failure after exactly max_retries
\* waits and max_retries + 1 navigations.
C7_BackoffSchedule ==
    (prog = "advance" /\ cwr.status = "returned" /\ cwr.captcha # "error") =>
        IF FirstGotoOk(cwr) > 0
        THEN /\ cwr.result = TRUE
             /\ Len(cwr.gotos) = FirstGotoOk(cwr)
             /\ cwr.waits = Backoff(FirstGotoOk(cwr) - 1)
        ELSE /\ cwr.result = FALSE
             /\ Len(cwr.gotos) = max_retries + 1
             /\ cwr.waits = Backoff(max_retries)

\* C8 (as claimed): every URL version2.py has visited was discovered at most
\* max_depth link hops from the domain's entry URL.
C8_VisitedWithinMaxDepthHops ==
    \A d \in Domains2 : \A u \in DOMAIN v2_hops[d] : v2_hops[d][u] <= MaxDepth

\* C9 (as claimed): a URL that matches an exclusion rule is never in a
\* domain's product set.
C9_ExcludedNeverProduct ==
    /\ \A d \in Domains2 : \A u \in v2_product_urls[d] : ~should_exclude_url(d, u)
    /\ prog = "advance" =>
          \A u \in adv_product_urls[adv_domain] : should_crawl_url(u, adv_domain)

\* The page of the scenario of C10: its first scroll adds the 12 links of the
\* first batch, which the extraction sees with the initial ones, and every
\* later scroll adds none.
ScScenario ==
    /\ Len(sc_scrolls) >= 1
    /\ sc_scrolls[1].added = FirstBatch
    /\ sc_scrolls[1].count = InitialLinks + FirstBatch
    /\ \A i \in 2..Len(sc_scrolls) : sc_scrolls[i].added = 0 /\ sc_scrolls[i].count = 0

\* Zero-gain scrolls performed on the page of the scenario
ZeroGainScrolls == Len(sc_scrolls) - 1

\* C10 (as claimed): on the page of the scenario handle_infinite_scroll, when
\* it stops by itself, has performed the second consecutive zero-gain scroll,
\* and the links it returns hold the 12 and the initial ones.
C10_StopsAfterSecondZeroGain ==
    (sc_pc = "done" /\ ScScenario /\ sc_stop \in {"height", "budget"}) =>
        /\ ZeroGainScrolls >= 2
        /\ 1..(InitialLinks + FirstBatch) \subseteq sc_all_urls

\* C10 (amended): on the page of the scenario handle_infinite_scroll stops at
\* the first iteration that finds the page height unchanged since the
\* iteration before (a load-more click not changing it), which with a stable
\* height is right after the first zero-gain scroll or before any; failing
\* that it stops when scroll_timeout has elapsed or when scroll_attempts,
\* which is twice the number of zero-gain scrolls, reaches
\* max_scroll_attempts.  The links it returns hold the 12 and the initial
\* ones, and crawl_page returns the same-domain ones among them.
C10_StopsOnStableHeightOrBudget ==
    ScScenario =>
        /\ sc_stop \in {"none", "height", "exception"} =>
              /\ sc_scroll_attempts = 2 * ZeroGainScrolls
              /\ sc_scroll_attempts < MaxScrollAttempts
        /\ sc_stop = "height" => sc_height = sc_prev_height
        /\ sc_stop = "budget" =>
              /\ sc_scroll_attempts = 2 * ZeroGainScrolls
              /\ sc_scroll_attempts >= MaxScrollAttempts
              /\ sc_scroll_attempts - 2 < MaxScrollAttempts
        /\ sc_stop = "timeout" => sc_elapsed > ScrollTimeout
        /\ 1..(InitialLinks + FirstBatch) \subseteq sc_all_urls
        /\ sc_pc = "done" =>
              {l \in 1..(InitialLinks + FirstBatch) : SameDomainLink(l)} \subseteq sc_result

\* C10 witness: the loop has stopped on a stable height after one zero-gain
\* scroll, the second never performed.
C10_Witness ==
    sc_pc = "done" /\ ScScenario /\ sc_stop = "height" /\ ZeroGainScrolls = 1

\* C11 (as claimed): every page for which is_product_page returns a match
\* (confidence >= 0.5) is recorded in the product set of the domain crawled.
\* The pages looked at are those the exclusion check lets through.
C11_MatchIsRecorded ==
    (/\ prog = "advance" /\ adv_pc = "loop" /\ adv_verdict.match
     /\ should_crawl_url(adv_page_url, adv_domain)) =>
        adv_page_url \in adv_product_urls[adv_domain]

\* C12 (as claimed): after a fast-path product hit (crawl_with_retry has
\* returned success on a URL matching a fast-path pattern) crawl_domain runs
\* none of the page operations of crawl_page on that URL and adds no link to
\* urls_to_visit.  The URLs looked at are those the exclusion check lets
\* through.
C12_FastPathSkipsCrawlPage ==
    [][(/\ prog = "advance" /\ adv_pc = "fetch"
        /\ cwr.status = "returned" /\ cwr.result /\ FastPath(cwr.url)
        /\ should_crawl_url(cwr.url, adv_domain)) =>
          (adv_calls' = << >> /\ adv_urls_to_visit' = adv_urls_to_visit)]_vars

\* C13 (as claimed): when the crawl task of one domain raises, the tasks of
\* the other domains still run to their completion and their product URLs are
\* in the saved results.
C13_OtherDomainsUnaffected ==
    (v2_phase = "saved" /\ v2_raised # {}) =>
        \A d \in Domains2 \ v2_raised :
            /\ v2_done[d]
            /\ d \in DOMAIN v2_output
            /\ v2_product_urls[d] \subseteq v2_output[d]

\* The visited sets hold exactly the URLs fetched, each fetched once: one
\* session.get per URL in version2.py, one crawl_with_retry call of
\* crawl_domain per URL in advance.py (the navigations crawl_with_retry repeats
\* inside one call are that one fetch), where no visited URL waits in
\* urls_to_visit.
FetchedOnce ==
    /\ \A d \in Domains2 :
          /\ DOMAIN v2_gets[d] = v2_visited_urls[d]
          /\ \A u \in DOMAIN v2_gets[d] : v2_gets[d][u] = 1
    /\ prog = "advance" =>
          /\ \A u \in DOMAIN adv_fetches : adv_fetches[u] = 1
          /\ DOMAIN adv_fetches \subseteq adv_visited_urls \cup {HomepageUrl(adv_domain)}
          /\ adv_pc \in {"loop", "fetch"} =>
                /\ DOMAIN adv_fetches = adv_visited_urls
                /\ adv_urls_to_visit \cap adv_visited_urls = {}

\* A step that runs a gathered crawl_url task on a URL already visited
RunsTaskOnVisited ==
    \E d \in Domains2 : \E t \in v2_spawned[d] :
        /\ t.url \in v2_visited_urls[d]
        /\ v2_spawned' = [v2_spawned EXCEPT ![d] = @ \ {t}]

\* C14: in each crawl loop a URL is added to the visited set and fetched at
\* most once per domain crawl, several crawl_url tasks gathered for the same
\* URL included; a crawl_url task run on a URL already visited performs no
\* fetch and changes nothing else.
C14_VisitedAndFetchedOnce ==
    /\ []FetchedOnce
    /\ [][RunsTaskOnVisited =>
            UNCHANGED <<v2_visited_urls, v2_product_urls, v2_inflight, v2_hops,
                        v2_gets, v2_pages, v2_done, v2_phase, v2_results, v2_output>>]_vars

\* C14 witness: the entry page of amazon.in, which links to /cat twice, has
\* been read, both crawl_url tasks for /cat have run, and /cat was fetched
\* once.
C14_Witness ==
    LET d == Url(AmazonIn, <<>>)
        c == Url(AmazonIn, <<"cat">>)
    IN /\ d \in v2_pages[d]
       /\ c \in v2_visited_urls[d]
       /\ v2_gets[d][c] = 1
       /\ \A t \in v2_spawned[d] : t.url # c

\* C15 (as claimed): for every URL fetched in the domain crawl of advance.py,
\* the home page included, extract_urls_from_page runs only after
\* handle_dynamic_content has run for that URL.
C15_ExtractAfterMaterialize ==
    prog = "advance" =>
        \A i \in DOMAIN adv_calls :
            adv_calls[i] = "extract_urls_from_page" =>
                \E j \in 1..(i - 1) : adv_calls[j] = "handle_dynamic_content"

\* C16 (as claimed): for every fetched page is_product_page runs only after
\* handle_dynamic_content has completed for that page.  The pages looked at
\* are those the exclusion check lets through.
C16_ClassifyAfterMaterialize ==
    (prog = "advance" /\ should_crawl_url(adv_page_url, adv_domain)) =>
        \A i \in DOMAIN adv_calls :
            adv_calls[i] = "is_product_page" =>
                \E j \in 1..(i - 1) : adv_calls[j] = "handle_dynamic_content"

\* C17: when crawl_page records the current page as a product it returns no
\* links and urls_to_visit is left as it was; when it does not, every link
\* the loop body adds to urls_to_visit satisfies should_crawl_url for the
\* domain.
C17_ProductStopsExpansion ==
    [][(prog = "advance" /\ adv_pc = "fetch" /\ adv_pc' = "loop") =>
          /\ ConfidentProduct(adv_verdict') =>
                /\ adv_page_url \in adv_product_urls'[adv_domain]
                /\ adv_urls_to_visit' = adv_urls_to_visit
          /\ \A l \in adv_urls_to_visit' \ adv_urls_to_visit :
                should_crawl_url(l, adv_domain)]_vars

\* C17 witness: a page has just been recorded as a product by crawl_page
\* while urls_to_visit holds a link that crawl_page returned for an earlier
\* page (/widget is linked from /cat only).
C17_Witness ==
    /\ prog = "advance" /\ adv_pc = "loop"
    /\ ConfidentProduct(adv_verdict)
    /\ adv_page_url \in adv_product_urls[adv_domain]
    /\ Url(Www(adv_domain), <<"widget">>) \in adv_urls_to_visit

\* C18 (as claimed): no step of the crawl of a domain adds a URL to the
\* product set of another configured domain.
C18_OwnProductSetOnly ==
    prog = "advance" =>
        \A d \in DomainsAdv \ {adv_domain} : adv_product_urls[d] = {}

\* While the scroll loop goes on, neither the budget (scroll_attempts, the
\* counter the while condition tests) nor the timeout had been reached at
\* their last test, and each scroll takes a second of the timeout.
ScrollWithinBounds ==
    /\ sc_pc = "loop" =>
          /\ sc_scroll_attempts < MaxScrollAttempts
          /\ sc_elapsed <= ScrollTimeout
    /\ Len(sc_scrolls) <= ScrollTimeout + 1
    /\ sc_pc \in {"exit", "done"} =>
          sc_stop \in {"not_tall", "height", "budget", "timeout", "exception"}

\* The loop goes on from an iteration that found the height unchanged only
\* when the load-more click has raised it.
ScrollPastStableHeight ==
    (sc_pc = "loop" /\ sc_height = sc_prev_height /\ sc_pc' = "loop") =>
        sc_height' > sc_height

\* C19: handle_infinite_scroll always terminates, and it stops no later than
\* the first of: the page height unchanged after the load-more attempt,
\* scroll_attempts reaching max_scroll_attempts, scroll_timeout elapsed; a
\* page that yields new links on every scroll is stopped by the timeout.
C19_ScrollTerminates ==
    /\ [](prog = "scroll" => ScrollWithinBounds)
    /\ [][prog = "scroll" => ScrollPastStableHeight]_vars
    /\ <>(sc_pc = "done")

\* C19 witness: every scroll of the page has yielded new links and the loop
\* was stopped by the timeout.
C19_Witness ==
    /\ sc_pc = "done" /\ sc_stop = "timeout"
    /\ Len(sc_scrolls) = ScrollTimeout + 1
    /\ \A i \in DOMAIN sc_scrolls : sc_scrolls[i].count > 0

\* C20: is_product_page returns no verdict when no pattern matches; when it
\* returns one, at least one pattern matched and the confidence, the sum of
\* the matched weights divided by their number, lies in [0,1]; a URL of a
\* non-Amazon site that matches the /dp/ pattern only, on a page matching no
\* content pattern, gets exactly 0.95.
C20_ConfidenceIsMeanWeight ==
    cl_pc = "done" =>
        /\ cl_verdict.count = 0 => ~cl_verdict.match
        /\ cl_verdict.match =>
              /\ cl_verdict.count > 0
              /\ 0 <= cl_verdict.sum /\ cl_verdict.sum <= 100 * cl_verdict.count
        /\ (cl_url.path = <<"dp", "B0ASIN">> /\ ~IsAmazonUrl(cl_url)) =>
              cl_verdict = [match |-> TRUE, sum |-> 95, count |-> 1]

\* C20 witness: is_product_page has returned 0.95 for /dp/B0ASIN on shop.ex,
\* one pattern matched.
C20_Witness ==
    /\ cl_pc = "done"
    /\ cl_url = Url(Www(ShopEx), <<"dp", "B0ASIN">>)
    /\ cl_verdict.match /\ cl_verdict.sum = 95 /\ cl_verdict.count = 1

\* The Amazon deny list of should_crawl_url, as the list of the domains whose
\* name holds "amazon", and its global deny patterns
AmazonDenied(u) ==
    \/ HasSeg(LowerUrl(u).path, AmazonExcludedTokens)
    \/ HasSegFollowed(LowerUrl(u).path, AmazonExcludedFollowed)
GloballyDenied(u) ==
    \/ HasSeg(LowerUrl(u).path, ExcludedPathTokens)
    \/ HasSeg(LowerUrl(u).path, SocialWordTokens)

\* C21 (as claimed): should_crawl_url rejects a URL exactly when its host does
\* not contain the domain, or a deny pattern specific to that domain matches,
\* or a global deny pattern matches, so that the Amazon list rejects nothing
\* crawled for another domain; should_exclude_url of version2.py likewise
\* with the global list and the list of the crawler's own domain.
C21_DenyListsPerDomain ==
    ex_pc = "done" =>
        IF ex_fn = "should_crawl_url"
        THEN ~ex_result <=>
                \/ ~HostContains(Netloc(ex_url), ex_domain)
                \/ ("amazon" \in Range(ex_domain) /\ AmazonDenied(ex_url))
                \/ GloballyDenied(ex_url)
        ELSE ex_result <=>
                \/ HasSeg(ex_url.path, ExcludeTokens2)
                \/ HasSeg(ex_url.path, DomainExcludeTokens2(ex_domain))
                \/ HasSegFollowed(ex_url.path, DomainExcludeFollowed2(ex_domain))

\* C22 (as claimed): when a step of the classification raises (reading the
\* page content, querying a selector), is_product_page returns no verdict, so
\* the page is not recorded as a product.
C22_ErrorGivesNoVerdict ==
    (cl_pc = "done" /\ cl_content_error) =>
        (~cl_verdict.match /\ ~ConfidentProduct(cl_verdict))

\* The URLs a crawl of advance.py can meet
UrlsAdv ==
    UNION {PageLinksAdv(d, HomepageUrl(d)) \cup PageLinksAdv(d, Url(Www(d), <<"cat">>))
             \cup ScrollLinksAdv(d, Url(Www(d), <<"cat">>)) : d \in DomainsAdv}

\* crawl_with_retry has just returned False for u, popped by the loop
FailedTerminally(u) ==
    /\ prog = "advance" /\ adv_pc = "fetch"
    /\ cwr.status = "returned" /\ ~cwr.result /\ cwr.url = u

\* C23: when the fetch of a URL popped by the loop of crawl_domain fails
\* terminally, the loop goes on with its condition and the pending set as
\* they were, and from then on the failed URL is neither pending nor handed to
\* crawl_with_retry again.
C23_FailedUrlIsDropped ==
    /\ \A u \in UrlsAdv :
          [](FailedTerminally(u) =>
                [](/\ u \notin adv_urls_to_visit
                   /\ ~(cwr.status = "running" /\ cwr.url = u)
                   /\ u \in adv_visited_urls))
    /\ [][(\E u \in UrlsAdv : FailedTerminally(u)) =>
             /\ adv_pc' = "loop"
             /\ adv_urls_to_visit' = adv_urls_to_visit
             /\ adv_product_urls' = adv_product_urls]_vars

\* A product link of the home page was popped and never loaded, and a page
\* linking to it was crawled
\* afterwards
C23_Witness ==
    /\ prog = "advance" /\ adv_pc = "loop"
    /\ Url(Www(adv_domain), <<"dp", "B0ASIN">>) \in adv_visited_urls \ adv_fetched
    /\ adv_page_url = Url(Www(adv_domain), <<"cat">>)
    /\ "extract_urls_from_page" \in Range(adv_calls)
    /\ Url(Www(adv_domain), <<"dp", "B0ASIN">>) \notin adv_urls_to_visit

\* C24: within one domain at most one navigation or interaction with the
\* shared rendering session is in progress at any time.  version2.py: at most
\* one gathered crawl_url coroutine is inside handle_dynamic_content, and the
\* driver still shows the page that coroutine loaded.  advance.py: a
\* page.goto is in progress only while the one loop of crawl_domain awaits
\* crawl_with_retry, for the URL it popped.
C24_OneSessionUserAtATime ==
    /\ Cardinality(InDriver) <= 1
    /\ \A t \in InDriver : dr_page = t
    /\ (prog = "advance" /\ cwr.status = "running") =>
          /\ adv_pc \in {"home_fetch", "fetch"}
          /\ adv_pc = "fetch" => cwr.url \in adv_visited_urls

\* One coroutine is scrolling in the driver while another one, also for a
\* JavaScript page, has its response and waits for the event loop
C24_Witness ==
    /\ prog = "driver"
    /\ \E t \in InDriver : dr_attempts[t] >= 1
    /\ \E t \in DOMAIN dr_pc :
          t \notin InDriver /\ dr_pc[t] = "text" /\ dr_ctype[t] = "application/javascript"

\* The crawl is over: advance.py has left its loop and closed the browser;
\* version2.py has saved its results and, unless the run was cut by the
\* timeout or an exception, every crawl_url task of every domain completed.
CrawlTerminated ==
    /\ prog = "advance" => adv_pc = "closed"
    /\ prog = "version2" =>
          /\ v2_phase = "saved"
          /\ (~v2_timed_out /\ v2_raised = {}) =>
                \A d \in Domains2 :
                    v2_done[d] /\ v2_spawned[d] = {} /\ v2_inflight[d] = {}

\* C25: provided every fetch returns, a domain crawl always terminates: the
\* loop of advance.py exits, with urls_to_visit empty or the visited limit
\* reached, and the crawl_url tasks of version2.py all complete.
C25_CrawlTerminates ==
    /\ <>CrawlTerminated
    /\ [](prog = "advance" /\ adv_pc = "closed" /\ adv_visited_urls # {} =>
             \/ adv_urls_to_visit = {}
             \/ Cardinality(adv_visited_urls) >= VisitLimit)

\* The loop of advance.py has ended on its visited limit with URLs pending
C25_Witness ==
    /\ prog = "advance" /\ adv_pc = "closed"
    /\ Cardinality(adv_visited_urls) = VisitLimit
    /\ adv_urls_to_visit # {}
    /\ Cardinality(adv_fetched) >= 2

\* An iteration of the scroll loop has just run and found new links / none
GainingIteration ==
    /\ Len(sc_scrolls') = Len(sc_scrolls) + 1
    /\ sc_scrolls'[Len(sc_scrolls')].count > 0
ZeroGainIteration ==
    /\ Len(sc_scrolls') = Len(sc_scrolls) + 1
    /\ sc_scrolls'[Len(sc_scrolls')].count = 0

\* C26 (as claimed): an iteration of handle_infinite_scroll that discovers at
\* least one new link resets the stall counter to zero and the loop continues.
C26_GainResetsAndContinues ==
    [][GainingIteration => (sc_scroll_attempts' = 0 /\ sc_pc' = "loop")]_vars

\* C26 (amended): an iteration that discovers a new link resets the stall
\* counter to zero and the loop goes on, unless the timeout test that comes
\* first has ended the loop, the counter then keeping its increment; a
\* zero-gain iteration that follows a reset leaves the counter at 2, which
\* does not end the loop when max_scroll_attempts exceeds 2.
C26_GainResetsUnlessTimedOut ==
    /\ [][(GainingIteration /\ ~ScrollTimedOut(sc_elapsed')) =>
             (sc_scroll_attempts' = 0 /\ sc_pc' = "loop")]_vars
    /\ [][(GainingIteration /\ ScrollTimedOut(sc_elapsed')) =>
             /\ sc_scroll_attempts' = sc_scroll_attempts + 1
             /\ sc_pc' = "exit" /\ sc_stop' = "timeout"]_vars
    /\ [][(ZeroGainIteration /\ sc_scroll_attempts = 0
             /\ ~ScrollTimedOut(sc_elapsed') /\ MaxScrollAttempts > 2) =>
             (sc_scroll_attempts' = 2 /\ sc_pc' = "loop")]_vars

\* A zero-gain iteration between two gaining ones, the loop still running
C26_Witness ==
    /\ prog = "scroll" /\ sc_pc = "loop" /\ sc_scroll_attempts = 0
    /\ \E i \in DOMAIN sc_scrolls :
          /\ i + 2 = Len(sc_scrolls)
          /\ sc_scrolls[i].count > 0
          /\ sc_scrolls[i + 1].count = 0
          /\ sc_scrolls[i + 2].count > 0

\* The page is of an Amazon domain: its host holds 'amazon'
OnAmazonDomain(u) == "amazon" \in Range(u.host)

\* C27 (as claimed): classification is domain-exclusive: a page of an Amazon
\* domain is scored with the Amazon URL table only, a page of any other domain
\* with the generic URL table only (to which the content matches are added).
C27_TablesByDomain ==
    cl_pc = "done" =>
        LET low == LowerUrl(cl_url)
            ws == (IF OnAmazonDomain(cl_url)
                   THEN AmazonUrlWeights(low) ELSE GenericUrlWeights(low))
                  \o (IF cl_content_error THEN << >> ELSE ContentWeights(cl_url))
        IN cl_verdict.sum = SumSeq(ws) /\ cl_verdict.count = Len(ws)

\* C28: the product set of each domain only grows: no step of any crawl
\* (recording, retry, failure, timeout, saving results) removes a URL from it.
C28_ProductSetsOnlyGrow ==
    [][/\ \A d \in DOMAIN v2_product_urls : v2_product_urls[d] \subseteq v2_product_urls'[d]
       /\ \A d \in DOMAIN adv_product_urls : adv_product_urls[d] \subseteq adv_product_urls'[d]
       /\ \A d \in DOMAIN main_product_urls :
             main_product_urls[d] \subseteq main_product_urls'[d]]_vars

\* A domain holds two products and its run was cut by the timeout, whose
\* saved output is empty
C28_Witness ==
    /\ prog = "version2" /\ v2_phase = "saved" /\ v2_timed_out
    /\ \E d \in Domains2 : Cardinality(v2_product_urls[d]) >= 2
    /\ v2_output = << >>

\* C29 (as claimed): every URL in product_urls[domain] of advance.py has a
\* host that contains that domain: no off-domain page is ever recorded as a
\* product of the domain.
C29_ProductsAreOnDomain ==
    \A d \in DOMAIN adv_product_urls :
        \A u \in adv_product_urls[d] : HostContains(Netloc(u), d)

\* C30: in version2.py the size of a domain's product_urls never exceeds
\* max_urls, however the gathered crawl_url tasks of the domain interleave.
C30_ProductsWithinMaxUrls ==
    \A d \in DOMAIN v2_product_urls : Cardinality(v2_product_urls[d]) <= MaxUrls

\* A domain holds max_urls products and a page it crawled links to one more
\* product, which the link loop left out
C30_Witness ==
    /\ prog = "version2"
    /\ \E d \in Domains2 :
          /\ Cardinality(v2_product_urls[d]) = MaxUrls
          /\ \E u \in v2_pages[d] : \E i \in DOMAIN PageLinks2(u) :
                LET abs == UrlJoin(d, PageLinks2(u)[i]) IN
                /\ SameSite(d, abs) /\ is_product_url(abs)
                /\ abs \notin v2_product_urls[d]
          /\ Cardinality(v2_inflight[d]) + Cardinality(v2_pages[d]) >= 3

\* C31 (as claimed): in main.py, after a successful page.goto of a URL,
\* crawl_page is run on that page and every same-domain link it discovers
\* that has not itself been fetched is added to urls_to_visit (to be fetched
\* while fewer than 100 URLs are visited).
C31_LinksOfFetchedPageEnqueued ==
    [][prog = "main" =>
          \A u \in main_fetched' \ main_fetched :
              \A l \in PageLinksMain(main_domain, u) :
                  (HostContains(Netloc(l), main_domain) /\ l \notin main_fetched')
                      => l \in main_urls_to_visit']_vars

\* The consecutive zero-gain iterations at the end of the scrolls performed
RECURSIVE TrailingZeroGains(_)
TrailingZeroGains(scrolls) ==
    IF scrolls = << >> \/ scrolls[Len(scrolls)].count > 0 THEN 0
    ELSE 1 + TrailingZeroGains(SubSeq(scrolls, 1, Len(scrolls) - 1))

\* ceil(max_scroll_attempts / 2)
HalfBudget == (MaxScrollAttempts + 1) \div 2

\* C32 (as claimed): each zero-gain iteration of handle_infinite_scroll raises
\* scroll_attempts by two, so after k consecutive zero-gain iterations since
\* the last gain the counter equals 2k, and the loop exits by the budget after
\* at most ceil(max_scroll_attempts / 2) consecutive zero-gain scrolls.
C32_ZeroGainCountsTwice ==
    /\ [][ZeroGainIteration => sc_scroll_attempts' = sc_scroll_attempts + 2]_vars
    /\ [](prog = "scroll" =>
             /\ TrailingZeroGains(sc_scrolls) > 0 =>
                   sc_scroll_attempts = 2 * TrailingZeroGains(sc_scrolls)
             /\ TrailingZeroGains(sc_scrolls) <= HalfBudget)

\* C32 (amended): a zero-gain iteration raises scroll_attempts by two unless
\* the timeout test has ended the loop first, the counter then being raised by
\* one; as long as the loop was not ended by the timeout the counter is twice
\* the number of consecutive zero-gain iterations since the last gain, the
\* loop goes on only while that number is below max_scroll_attempts / 2, and
\* an exit by the budget comes at ceil(max_scroll_attempts / 2) of them.
C32_ZeroGainCountsTwiceUnlessTimedOut ==
    /\ [][(ZeroGainIteration /\ ~ScrollTimedOut(sc_elapsed')) =>
             sc_scroll_attempts' = sc_scroll_attempts + 2]_vars
    /\ [][(ZeroGainIteration /\ ScrollTimedOut(sc_elapsed')) =>
             /\ sc_scroll_attempts' = sc_scroll_attempts + 1
             /\ sc_pc' = "exit" /\ sc_stop' = "timeout"]_vars
    /\ [](prog = "scroll" =>
             /\ sc_stop # "timeout" =>
                   sc_scroll_attempts = 2 * TrailingZeroGains(sc_scrolls)
             /\ sc_stop = "timeout" =>
                   sc_elapsed > ScrollTimeout
             /\ sc_pc = "loop" => 2 * TrailingZeroGains(sc_scrolls) < MaxScrollAttempts
             /\ sc_stop = "budget" => TrailingZeroGains(sc_scrolls) = HalfBudget
             /\ TrailingZeroGains(sc_scrolls) <= HalfBudget)

\* The loop has ended by the budget, on zero-gain scrolls that followed a gain
C32_Witness ==
    /\ prog = "scroll" /\ sc_stop = "budget"
    /\ TrailingZeroGains(sc_scrolls) = HalfBudget
    /\ Len(sc_scrolls) > HalfBudget
    /\ sc_scroll_attempts = 2 * HalfBudget

\* The weights of the patterns the page at u matches, in the table its URL
\* selects
MatchedWeights(u, content_error) ==
    (IF IsAmazonUrl(LowerUrl(u))
     THEN AmazonUrlWeights(LowerUrl(u)) ELSE GenericUrlWeights(LowerUrl(u)))
    \o (IF content_error THEN << >> ELSE ContentWeights(u))

\* C33: every pattern weight being at least 0.5, is_product_page returns a
\* match if and only if at least one pattern matched: the 0.5 threshold never
\* rejects a page with a non-zero match count.
C33_MatchIffPatternMatched ==
    cl_pc = "done" =>
        LET ws == MatchedWeights(cl_url, cl_content_error) IN
        /\ \A i \in DOMAIN ws : ws[i] >= 50
        /\ cl_verdict.count = Len(ws)
        /\ cl_verdict.match <=> Len(ws) > 0

\* A page whose only match is a content pattern of weight 0.5 is returned as a
\* match, its confidence exactly the threshold
C33_Witness ==
    /\ cl_pc = "done" /\ ~cl_content_error
    /\ cl_verdict = [match |-> TRUE, sum |-> 50, count |-> 1]

====
